---- MODULE Spec2Model ----
(***************************************************************************)
(* Model of src/prototype.py: the campus map viewer.  One run of main() is   *)
(* one step: the sidebar widgets are read, the highlight is decided (search *)
(* box first, then the list selection), create_map is called and, when it   *)
(* returns, the information panel with the distance list follows.  The file *)
(* defines                                                                  *)
(* main without calling it; the model describes what each call of main      *)
(* does, one call per user event as Streamlit reruns a script.              *)
(*                                                                          *)
(* Representation.                                                          *)
(*   - latitude / longitude are integers in units of 1e-4 degree, the       *)
(*     precision of every literal in the source (-0.3918 is -3918).         *)
(*   - a location name is a TLA+ string; Chars(name) is the sequence of its *)
(*     characters, used wherever the code looks inside the string.          *)
(*   - a search term is a sequence of characters, each a one-character     *)
(*     string or the name of a character that cannot be written so.         *)
(*   - Python None is the string "None"; a session key that was never set   *)
(*     is "Absent".                                                         *)
(***************************************************************************)
EXTENDS Integers, Sequences, FiniteSets, TLC

VARIABLES
    search_term,           \* st.text_input value (line 148)
    selected_type,         \* st.selectbox value (line 155)
    listed,                \* the options of that selectbox: filtered_locations['name']
    selected_location,     \* st.selectbox value (line 167)
    highlighted_location,  \* st.session_state.highlighted_location
    branch,                \* which arm of lines 176-200 the last run took
    found,                 \* names of found_locations of the last run (lines 177-179)
    call,                  \* the arguments of the last run's create_map call
    raised,                \* the exception that ended the last run, or None
    m,                     \* the map bound to m by the last run (lines 187-200)
    panel                  \* the information panel of the last run (lines 209-233)

vars == <<search_term, selected_type, listed, selected_location,
          highlighted_location,
          branch, found, call, raised, m, panel>>

None == "None"
Absent == "Absent"

(***************************************************************************)
(* The directory (lines 16-28).                                             *)
(***************************************************************************)
locations ==
    << [name |-> "Main Gate", latitude |-> -3918, longitude |-> 369630,
        type |-> "Entry", radius |-> 50],
       [name |-> "Library", latitude |-> -3925, longitude |-> 369635,
        type |-> "Academic", radius |-> 70],
       [name |-> "Administration Block", latitude |-> -3920, longitude |-> 369638,
        type |-> "Administrative", radius |-> 60],
       [name |-> "Engineering Block", latitude |-> -3928, longitude |-> 369632,
        type |-> "Academic", radius |-> 80],
       [name |-> "Student Center", latitude |-> -3922, longitude |-> 369640,
        type |-> "Services", radius |-> 65] >>

\* The characters of the name strings of lines 18-22.
Chars(name) ==
    CASE name = "Main Gate" -> <<"M","a","i","n"," ","G","a","t","e">>
      [] name = "Library" -> <<"L","i","b","r","a","r","y">>
      [] name = "Administration Block" ->
            <<"A","d","m","i","n","i","s","t","r","a","t","i","o","n"," ",
              "B","l","o","c","k">>
      [] name = "Engineering Block" ->
            <<"E","n","g","i","n","e","e","r","i","n","g"," ","B","l","o","c","k">>
      [] name = "Student Center" ->
            <<"S","t","u","d","e","n","t"," ","C","e","n","t","e","r">>

Rows == 1..Len(locations)
Names == {locations[i].name : i \in Rows}

\* locations[locations['name'] == n].iloc[0]  (lines 195, 213)
row_by_name(n) == locations[CHOOSE i \in Rows :
                      /\ locations[i].name = n
                      /\ \A j \in 1..(i-1) : locations[j].name # n]

(***************************************************************************)
(* Characters, str.lower() and str.upper().  A character is a string of     *)
(* one character; a character that cannot be written so is written by a     *)
(* name: "grave" for the grave accent, "U+212A" (KELVIN SIGN), "U+0130"     *)
(* (LATIN CAPITAL LETTER I WITH DOT ABOVE) and "U+0307" (COMBINING DOT      *)
(* ABOVE) for the characters outside ASCII that are modelled.  str.lower()  *)
(* follows Unicode: it may turn a character outside ASCII into an ASCII     *)
(* letter, or one character into two.  Of any other character outside       *)
(* ASCII the lower case has no value in this model.                         *)
(***************************************************************************)
UpperCase == <<"A","B","C","D","E","F","G","H","I","J","K","L","M",
               "N","O","P","Q","R","S","T","U","V","W","X","Y","Z">>
LowerCase == <<"a","b","c","d","e","f","g","h","i","j","k","l","m",
               "n","o","p","q","r","s","t","u","v","w","x","y","z">>
Letters == {UpperCase[i] : i \in 1..Len(UpperCase)}
             \cup {LowerCase[i] : i \in 1..Len(LowerCase)}
Digits == {"0","1","2","3","4","5","6","7","8","9"}

\* The printable ASCII characters in code order, from the space (32) on.
Ascii ==
    <<" ","!","\"","#","$","%","&","'","(",")","*","+",",","-",".","/",
      "0","1","2","3","4","5","6","7","8","9",":",";","<","=",">","?","@",
      "A","B","C","D","E","F","G","H","I","J","K","L","M",
      "N","O","P","Q","R","S","T","U","V","W","X","Y","Z",
      "[","\\","]","^","_","grave",
      "a","b","c","d","e","f","g","h","i","j","k","l","m",
      "n","o","p","q","r","s","t","u","v","w","x","y","z",
      "{","|","}","~">>

AsciiChars == {Ascii[k] : k \in 1..Len(Ascii)}

\* c.lower(), as the sequence of its characters
lower_char(c) ==
    CASE c \in AsciiChars \ Letters -> <<c>>
      [] c \in Letters ->
            IF \E i \in 1..Len(UpperCase) : UpperCase[i] = c
            THEN <<LowerCase[CHOOSE i \in 1..Len(UpperCase) : UpperCase[i] = c]>>
            ELSE <<c>>
      [] c = "U+212A" -> <<"k">>
      [] c = "U+0130" -> <<"i", "U+0307">>
      [] c = "U+0307" -> <<c>>

\* c.upper() of an ASCII character
upper_char(c) ==
    CASE c \in AsciiChars ->
            IF \E i \in 1..Len(LowerCase) : LowerCase[i] = c
            THEN UpperCase[CHOOSE i \in 1..Len(LowerCase) : LowerCase[i] = c]
            ELSE c

RECURSIVE lower_from(_, _, _)
lower_from(s, i, out) ==
    IF i > Len(s) THEN out
    ELSE lower_from(s, i + 1, out \o lower_char(s[i]))

RECURSIVE upper_from(_, _, _)
upper_from(s, i, out) ==
    IF i > Len(s) THEN out
    ELSE upper_from(s, i + 1, Append(out, upper_char(s[i])))

lower(s) == lower_from(s, 1, <<>>)
upper(s) == upper_from(s, 1, <<>>)

(***************************************************************************)
(* Series.str.contains(pat) (line 178).  pandas' default is regex=True, so  *)
(* the term is compiled as a regular expression and searched for in each    *)
(* name.  The subset modelled here: ordinary characters, '.', groups        *)
(* '(...)', character sets '[...]' with ranges and '^', a postfix '*', a    *)
(* backslash before a punctuation character, and the patterns the regex     *)
(* compiler rejects (a group or set never closed, a ')' never opened, a     *)
(* '*' with nothing before it or after another '*', a reversed range, a     *)
(* backslash at the end or before a letter that is no escape).  A pattern   *)
(* using any other construct (RegexOther outside a set, a backslash before  *)
(* RegexClassEscapes) has no value in this model.                           *)
(***************************************************************************)
RegexOther == {"?", "+", "{", "}", "|", "^", "$"}
RegexClassEscapes ==
    {"a","b","d","f","n","r","s","t","u","v","w","x","z",
     "A","B","D","N","S","U","W","Z"} \cup Digits

ord(c) == 31 + (CHOOSE k \in 1..Len(Ascii) : Ascii[k] = c)
char_range(lo, hi) == {Ascii[k - 31] : k \in ord(lo)..ord(hi)}

\* One element of a compiled pattern: a character, '.', a set or a group.
Atom(kind, ch, star) ==
    [kind |-> kind, ch |-> ch, star |-> star,
     members |-> {}, negate |-> FALSE, atoms |-> <<>>]
SetAtom(members, negate, star) ==
    [kind |-> "set", ch |-> "", star |-> star,
     members |-> members, negate |-> negate, atoms |-> <<>>]
GroupAtom(atoms, star) ==
    [kind |-> "group", ch |-> "", star |-> star,
     members |-> {}, negate |-> FALSE, atoms |-> atoms]

Parsed(atoms, next) == [ok |-> TRUE, atoms |-> atoms, next |-> next]
ParseError == [ok |-> FALSE, atoms |-> <<>>, next |-> 0]

has_star(p, j) == j <= Len(p) /\ p[j] = "*"
after_star(p, j) == IF has_star(p, j) THEN j + 1 ELSE j

\* a backslash at position i: at the end, or before a letter that is no escape
bad_escape(p, i) ==
    \/ i = Len(p)
    \/ p[i + 1] \in Letters \ RegexClassEscapes

\* the character a backslash stands before
escaped_char(c) == CASE c \notin RegexClassEscapes -> c

\* The members of a set read from position j on ('[' and '^' are behind);
\* first: no member was read yet, so that a ']' here is a member.
RECURSIVE set_members(_, _, _, _)
set_members(p, j, first, members) ==
    IF j > Len(p) THEN [ok |-> FALSE, members |-> {}, next |-> 0]
    ELSE IF p[j] = "]" /\ ~first
    THEN [ok |-> TRUE, members |-> members, next |-> j + 1]
    ELSE IF p[j] = "\\" /\ bad_escape(p, j)
    THEN [ok |-> FALSE, members |-> {}, next |-> 0]
    ELSE LET w == IF p[j] = "\\" THEN 2 ELSE 1
             lo == IF p[j] = "\\" THEN escaped_char(p[j + 1]) ELSE p[j]
         IN IF j + w <= Len(p) /\ p[j + w] = "-"
               /\ ~(j + w + 1 <= Len(p) /\ p[j + w + 1] = "]")
            THEN \* a range lo-hi
                 IF j + w + 1 > Len(p)
                 THEN [ok |-> FALSE, members |-> {}, next |-> 0]
                 ELSE CASE p[j + w + 1] # "\\" ->
                        IF ord(lo) > ord(p[j + w + 1])
                        THEN [ok |-> FALSE, members |-> {}, next |-> 0]
                        ELSE set_members(p, j + w + 2, FALSE,
                                 members \cup char_range(lo, p[j + w + 1]))
            ELSE set_members(p, j + w, FALSE, members \cup {lo})

\* the set whose '[' is at position i - 1
parse_set(p, i) ==
    IF i <= Len(p) /\ p[i] = "^"
    THEN [negate |-> TRUE, body |-> set_members(p, i + 1, TRUE, {})]
    ELSE [negate |-> FALSE, body |-> set_members(p, i, TRUE, {})]

\* The pattern read left to right from position i, inside depth open groups;
\* atoms are those read so far at this depth.
RECURSIVE re_parse(_, _, _, _)
RECURSIVE after_group(_, _, _, _)
RECURSIVE after_set(_, _, _, _)

re_parse(p, i, depth, atoms) ==
    IF i > Len(p)
    THEN IF depth = 0 THEN Parsed(atoms, i) ELSE ParseError
    ELSE CASE p[i] = ")" ->
                IF depth > 0 THEN Parsed(atoms, i + 1) ELSE ParseError
           [] p[i] = "(" ->
                after_group(p, depth, atoms, re_parse(p, i + 1, depth + 1, <<>>))
           [] p[i] = "[" ->
                after_set(p, depth, atoms, parse_set(p, i + 1))
           [] p[i] = "*" -> ParseError
           [] p[i] = "\\" ->
                IF bad_escape(p, i) THEN ParseError
                ELSE re_parse(p, after_star(p, i + 2), depth,
                         Append(atoms, Atom("lit", escaped_char(p[i + 1]),
                                            has_star(p, i + 2))))
           [] p[i] = "." ->
                re_parse(p, after_star(p, i + 1), depth,
                         Append(atoms, Atom("any", ".", has_star(p, i + 1))))
           [] p[i] \notin RegexOther \cup {")", "(", "[", "*", "\\", "."} ->
                re_parse(p, after_star(p, i + 1), depth,
                         Append(atoms, Atom("lit", p[i], has_star(p, i + 1))))

after_group(p, depth, atoms, g) ==
    IF ~g.ok THEN ParseError
    ELSE re_parse(p, after_star(p, g.next), depth,
                  Append(atoms, GroupAtom(g.atoms, has_star(p, g.next))))

after_set(p, depth, atoms, set) ==
    IF ~set.body.ok THEN ParseError
    ELSE re_parse(p, after_star(p, set.body.next), depth,
                  Append(atoms, SetAtom(set.body.members, set.negate,
                                        has_star(p, set.body.next))))

re_compile(p) == re_parse(p, 1, 0, <<>>)

atom_fits(a, c) ==
    CASE a.kind = "any" -> TRUE
      [] a.kind = "lit" -> a.ch = c
      [] a.kind = "set" -> (c \in a.members) # a.negate

\* Matching, on sets of positions: from each position of from, the positions
\* at which a match of the atoms k, k+1, ... can end.
RECURSIVE seq_ends(_, _, _, _)
RECURSIVE once_ends(_, _, _)
RECURSIVE star_ends(_, _, _)

once_ends(a, s, from) ==
    IF a.kind = "group" THEN seq_ends(a.atoms, 1, s, from)
    ELSE {j + 1 : j \in {i \in from : i <= Len(s) /\ atom_fits(a, s[i])}}

star_ends(a, s, from) ==
    IF once_ends(a, s, from) \subseteq from THEN from
    ELSE star_ends(a, s, from \cup once_ends(a, s, from))

seq_ends(atoms, k, s, from) ==
    IF k > Len(atoms) THEN from
    ELSE seq_ends(atoms, k + 1, s,
                  IF atoms[k].star THEN star_ends(atoms[k], s, from)
                  ELSE once_ends(atoms[k], s, from))

\* regex.search(s): a match starts somewhere in s
re_search(atoms, s) == seq_ends(atoms, 1, s, 1..(Len(s) + 1)) # {}

search_all(compiled, series) ==
    IF compiled.ok
    THEN [raised |-> FALSE,
          mask |-> [i \in 1..Len(series) |-> re_search(compiled.atoms, series[i])]]
    ELSE [raised |-> TRUE, mask |-> [i \in 1..Len(series) |-> FALSE]]

\* series.str.contains(pat): the pattern is compiled once (re.error when it
\* does not compile) and searched for in every element.
str_contains(series, pat) == search_all(re_compile(pat), series)

(***************************************************************************)
(* Sidebar (lines 143-170).                                                 *)
(***************************************************************************)
\* Series.unique(): the distinct values in order of first appearance.
RECURSIVE unique_from(_, _, _)
unique_from(s, i, seen) ==
    IF i > Len(s) THEN seen
    ELSE unique_from(s, i + 1,
                     IF \E j \in 1..Len(seen) : seen[j] = s[i] THEN seen
                     ELSE Append(seen, s[i]))

unique(s) == unique_from(s, 1, <<>>)

column(rows, field) == [i \in 1..Len(rows) |-> rows[i][field]]

\* ["All"] + list(locations['type'].unique())  (line 157)
type_options == <<"All">> \o unique(column(locations, "type"))

\* the comparison of line 163 inverted
type_differs(row, type) == row.type # type

\* locations['type'] == selected_type (line 163)
type_matches(row, type) == row.type = type

\* lines 162-165
filtered_locations(type) ==
    IF type # "All"
    THEN SelectSeq(locations, LAMBDA row : type_matches(row, type))
    ELSE locations

\* the options of the location selectbox: filtered_locations['name'] (line 169)
location_options(type) == column(filtered_locations(type), "name")

\* st.selectbox: the chosen option; None when there is nothing to choose.
selectbox(options, index) ==
    IF Len(options) = 0 THEN None ELSE options[index]

(***************************************************************************)
(* Search (lines 177-179): the rows whose lower-cased name contains the     *)
(* lower-cased term, or the re.error of the first element.                  *)
(***************************************************************************)
\* locations['name'].str.lower()
lower_names == [i \in Rows |-> lower(Chars(locations[i].name))]

RECURSIVE rows_where(_, _, _)
rows_where(mask, i, out) ==
    IF i > Len(locations) THEN out
    ELSE rows_where(mask, i + 1,
                    IF mask[i] THEN Append(out, locations[i]) ELSE out)

\* locations[mask]
select_rows(contains) ==
    [raised |-> contains.raised,
     rows |-> IF contains.raised THEN <<>>
              ELSE rows_where(contains.mask, 1, <<>>)]

found_locations(term) == select_rows(str_contains(lower_names, lower(term)))

(***************************************************************************)
(* geodesic(a, b).meters (line 226): the WGS-84 geodesic.  Over the few     *)
(* hundred metres of the campus, at latitude -0.39 degrees, it is the       *)
(* length of the straight segment in the local metric of the ellipsoid:     *)
(* 110574 m per degree of latitude, 111317 m per degree of longitude.       *)
(* The value is in whole centimetres, for points less than 460 m apart; it  *)
(* agrees with the WGS-84 geodesic to the metre shown by line 229 for every *)
(* pair of the directory.                                                   *)
(***************************************************************************)
MetresPerDegreeLat == 110574
MetresPerDegreeLon == 111317

abs(x) == IF x < 0 THEN -x ELSE x

RECURSIVE sqrt_search(_, _, _)
sqrt_search(n, lo, hi) ==
    IF lo >= hi THEN lo
    ELSE LET mid == (lo + hi + 1) \div 2
         IN IF mid * mid <= n THEN sqrt_search(n, mid, hi)
            ELSE sqrt_search(n, lo, mid - 1)

isqrt(n) == sqrt_search(n, 0, 46340)

geodesic_cm(a, b) ==
    LET dy == (abs(a[1] - b[1]) * MetresPerDegreeLat) \div 100
        dx == (abs(a[2] - b[2]) * MetresPerDegreeLon) \div 100
    IN isqrt(dy * dy + dx * dx)

\* f"{distance:.0f} meters" (line 229): rounded to the whole metre, an exact
\* half to the even one.
round_half_even(cm) ==
    IF cm % 100 > 50 \/ (cm % 100 = 50 /\ (cm \div 100) % 2 = 1)
    THEN cm \div 100 + 1
    ELSE cm \div 100

format_distance(cm) == ToString(round_half_even(cm)) \o " meters"

(***************************************************************************)
(* The information panel (lines 209-233).                                   *)
(***************************************************************************)
\* line 224
is_other(row, selected) == row.name # selected

\* lines 222-230: one entry per row other than the selected one, in row order.
RECURSIVE distances_loop(_, _, _)
distances_loop(i, selected, acc) ==
    IF i > Len(locations) THEN acc
    ELSE LET row == locations[i]
             loc == row_by_name(selected)
             selected_coords == <<loc.latitude, loc.longitude>>
             target_coords == <<row.latitude, row.longitude>>
             distance == geodesic_cm(selected_coords, target_coords)
         IN IF is_other(row, selected)
            THEN distances_loop(i + 1, selected,
                     Append(acc, [location |-> row.name,
                                  distance |-> format_distance(distance)]))
            ELSE distances_loop(i + 1, selected, acc)

distances(selected) == distances_loop(1, selected, <<>>)

NoPanel == [shown |-> FALSE, name |-> None, type |-> None,
            coordinates |-> <<0, 0>>, distances |-> <<>>]

\* lines 212-233
info_panel(selected) ==
    IF selected # None
    THEN LET loc == row_by_name(selected)
         IN [shown |-> TRUE, name |-> loc.name, type |-> loc.type,
             coordinates |-> <<loc.latitude, loc.longitude>>,
             distances |-> distances(selected)]
    ELSE NoPanel

(***************************************************************************)
(* create_map (lines 42-132).  The elements added to the map, in order.     *)
(* DivIcon (line 111) and Locate (line 130) are names the module never      *)
(* imports or defines: evaluating either raises NameError, so no call of    *)
(* create_map returns a map.                                                *)
(***************************************************************************)
Element(kind, row) ==
    [kind |-> kind, name |-> row.name,
     location |-> <<row.latitude, row.longitude>>, radius |-> row.radius]

\* lines 30-40
create_dark_overlay(children) ==
    Append(children, [kind |-> "Rectangle", name |-> None,
                      location |-> <<-3950, 369600>>, radius |-> 0])

\* lines 55-114: the loop over the rows
RECURSIVE add_markers(_, _, _)
add_markers(children, i, highlight_name) ==
    IF i > Len(locations) THEN [raised |-> None, children |-> children]
    ELSE LET row == locations[i]
             is_highlighted == highlight_name # None /\ row.name = highlight_name
         IN IF is_highlighted
            THEN \* Circle added (73-81), then DivIcon is evaluated (111)
                 [raised |-> "NameError: DivIcon",
                  children |-> Append(children, Element("Circle", row))]
            ELSE add_markers(Append(children, Element("Marker", row)),
                             i + 1, highlight_name)

NoMap == [built |-> FALSE, location |-> <<0, 0>>, zoom_start |-> 0,
          children |-> <<>>]

\* lines 116-130 after the loop
finish_map(loop) ==
    IF loop.raised # None
    THEN [raised |-> loop.raised, m |-> NoMap, added |-> loop.children]
    ELSE \* Draw added (117-128), then Locate is evaluated (130)
         [raised |-> "NameError: Locate", m |-> NoMap,
          added |-> Append(loop.children,
                           [kind |-> "Draw", name |-> None,
                            location |-> <<0, 0>>, radius |-> 0])]

create_map(center_lat, center_lon, zoom, highlight_name) ==
    finish_map(add_markers(IF highlight_name # None
                           THEN create_dark_overlay(<<>>) ELSE <<>>,
                           1, highlight_name))

(***************************************************************************)
(* main (lines 134-233).                                                    *)
(***************************************************************************)
NoCall == [called |-> FALSE, center_lat |-> 0, center_lon |-> 0, zoom |-> 0,
           highlight_name |-> None]

Call(center_lat, center_lon, zoom, highlight_name) ==
    [called |-> TRUE, center_lat |-> center_lat, center_lon |-> center_lon,
     zoom |-> zoom, highlight_name |-> highlight_name]

\* create_map() with the defaults of line 42
DefaultCall == Call(-3923, 369634, 17, None)

\* line 176 without its test: the search runs whatever the term
term_always(term) == TRUE

\* `if search_term:` (line 176): a str is true when it is not empty
term_given(term) == term # <<>>

\* found_locations.iloc[0] (lines 181-185)
first_match(rows) == rows[1]

\* lines 180-191, with f the found_locations of line 177
search_arm(f) ==
    IF f.raised
    THEN [branch |-> "search_raised", raised |-> "re.error", found |-> <<>>,
          stores |-> FALSE, highlight_name |-> None, call |-> NoCall]
    ELSE IF f.rows # <<>>
    THEN [branch |-> "search_found", raised |-> None,
          found |-> column(f.rows, "name"),
          stores |-> TRUE, highlight_name |-> first_match(f.rows).name,
          call |-> Call(first_match(f.rows).latitude,
                        first_match(f.rows).longitude, 18,
                        first_match(f.rows).name)]
    ELSE [branch |-> "search_empty", raised |-> None, found |-> <<>>,
          stores |-> TRUE, highlight_name |-> None, call |-> DefaultCall]

\* lines 192-197
selection_arm(selected) ==
    [branch |-> "selection", raised |-> None, found |-> <<>>,
     stores |-> TRUE, highlight_name |-> selected,
     call |-> Call(row_by_name(selected).latitude,
                   row_by_name(selected).longitude, 18, selected)]

\* lines 198-200
else_arm ==
    [branch |-> "else", raised |-> None, found |-> <<>>,
     stores |-> TRUE, highlight_name |-> None, call |-> DefaultCall]

\* lines 172-200 up to the create_map call: the arm taken, the value stored in
\* the session (when one is stored) and the arguments of the call.
decide(term, selected) ==
    IF term_given(term) THEN search_arm(found_locations(term))
    ELSE IF selected # None THEN selection_arm(selected)
    ELSE else_arm

\* the create_map call of the arm taken (lines 187, 191, 196, 200)
build(d) ==
    IF d.call.called
    THEN create_map(d.call.center_lat, d.call.center_lon, d.call.zoom,
                    d.call.highlight_name)
    ELSE [raised |-> d.raised, m |-> NoMap, added |-> <<>>]

\* the state a run leaves: d is what lines 172-200 decided, built the outcome
\* of the create_map call; the panel (lines 209-233) follows when nothing was
\* raised before it.
outcome(term, type, selected, stored, d, built) ==
    [search_term |-> term,
     selected_type |-> type,
     listed |-> location_options(type),
     selected_location |-> selected,
     highlighted_location |->
         IF d.stores THEN d.highlight_name
         ELSE IF stored = Absent THEN None ELSE stored,   \* lines 139-140
     branch |-> d.branch,
     found |-> d.found,
     call |-> d.call,
     raised |-> built.raised,
     m |-> built.m,
     panel |-> IF built.raised = None THEN info_panel(selected) ELSE NoPanel]

run_from(term, type, selected, stored, d) ==
    outcome(term, type, selected, stored, d, build(d))

\* One run of the script with the widgets holding (term, type, selected) and
\* the session holding stored.
script(term, type, selected, stored) ==
    run_from(term, type, selected, stored, decide(term, selected))

main(term, type, selected) ==
    \E after \in {script(term, type, selected, highlighted_location)} :
        /\ search_term' = after.search_term
        /\ selected_type' = after.selected_type
        /\ listed' = after.listed
        /\ selected_location' = after.selected_location
        /\ highlighted_location' = after.highlighted_location
        /\ branch' = after.branch
        /\ found' = after.found
        /\ call' = after.call
        /\ raised' = after.raised
        /\ m' = after.m
        /\ panel' = after.panel

(***************************************************************************)
(* The inputs.  Search terms: every string over TermAlphabet of at most     *)
(* MaxTermLen characters, the location names as written, lower-cased and    *)
(* upper-cased, and a few more words.                                       *)
(***************************************************************************)
MaxTermLen == 2

TermAlphabet == {"i", "L", ".", "*", "("}

MoreTerms ==
    { <<"l","i","b">>, <<"B","l","o","c","k">>, <<"e","r">>, <<"x","y","z">>,
      <<" ">>, <<"[">>, <<"\\">>, <<"\\",".">>, <<"n",".","*","k">>,
      <<"(","L","i",")">>, <<"(",".","*",")">>, <<"[","l","b","]">>,
      <<"[","a","-","z","]">>, <<"[","^","a","-","z","]">>, <<"[","z","-","a","]">>,
      <<"(","r","a",")","*","r","y">>, <<"(",")">>, <<")">>, <<"(","i",")">>,
      <<"U+212A">>, <<"U+0130">> }

Terms ==
    UNION {[1..n -> TermAlphabet] : n \in 0..MaxTermLen}
      \cup UNION {{Chars(n), lower(Chars(n)), upper(Chars(n))} : n \in Names}
      \cup MoreTerms

Ran == branch # "init"

Init ==
    /\ search_term = <<>>
    /\ selected_type = type_options[1]
    /\ listed = <<>>
    /\ selected_location = selectbox(location_options(type_options[1]), 1)
    /\ highlighted_location = Absent
    /\ branch = "init"
    /\ found = <<>>
    /\ call = NoCall
    /\ raised = None
    /\ m = NoMap
    /\ panel = NoPanel

\* the first run of a session: every widget at its default
Load ==
    /\ ~Ran
    /\ main(search_term, selected_type, selected_location)

\* the user types a term in the search box
EnterSearch(term) ==
    /\ Ran
    /\ term # search_term
    /\ main(term, selected_type, selected_location)

\* the user picks a type; the location selectbox, its options changed, falls
\* back to its first option
SelectType(k) ==
    /\ Ran
    /\ type_options[k] # selected_type
    /\ main(search_term, type_options[k],
            selectbox(location_options(type_options[k]), 1))

\* the user picks a location of the (filtered) list
SelectLocation(k) ==
    /\ Ran
    /\ location_options(selected_type)[k] # selected_location
    /\ main(search_term, selected_type,
            selectbox(location_options(selected_type), k))

Next ==
    \/ Load
    \/ \E term \in Terms : EnterSearch(term)
    \/ \E k \in 1..Len(type_options) : SelectType(k)
    \/ \E k \in 1..Len(location_options(selected_type)) : SelectLocation(k)

Spec == Init /\ [][Next]_vars

(***************************************************************************)
(* Properties.                                                              *)
(***************************************************************************)
index_of(name) == CHOOSE i \in Rows : locations[i].name = name
elements(s) == {s[i] : i \in 1..Len(s)}

\* C2: filtering by type partitions the directory: after a run the listed
\* locations are those of the selected type (all of them for 'All'), in
\* directory order; every location is listed under exactly one of the types
\* the selector offers, and the lists of all types together are the list of
\* 'All'.
C2_TypePartition ==
    Ran =>
        /\ \A i \in Rows :
              (locations[i].name \in elements(listed))
                  <=> (selected_type = "All" \/ locations[i].type = selected_type)
        /\ \A a, b \in 1..Len(listed) :
              (a < b) <=> (index_of(listed[a]) < index_of(listed[b]))
        /\ \A i \in Rows :
              Cardinality({k \in 2..Len(type_options) :
                  locations[i].name
                      \in elements(location_options(type_options[k]))}) = 1
        /\ UNION {elements(location_options(type_options[k])) :
                      k \in 2..Len(type_options)}
               = elements(location_options("All"))
        /\ location_options("All") = column(locations, "name")

C2_Witness ==
    /\ Ran
    /\ selected_type = "Academic"
    /\ listed = <<"Library", "Engineering Block">>

\* C4: with the empty search term no search is made: nothing is found, no arm
\* of the search is taken, and the highlight and the centre of the map are
\* those of the location selected in the list.
C4_EmptyTerm ==
    (Ran /\ search_term = <<>>) =>
        /\ found = <<>>
        /\ branch = "selection"
        /\ highlighted_location = selected_location
        /\ call = Call(row_by_name(selected_location).latitude,
                       row_by_name(selected_location).longitude, 18,
                       selected_location)

C4_Witness ==
    /\ Ran
    /\ search_term = <<>>
    /\ selected_location = "Library"
    /\ call.highlight_name = "Library"

(***************************************************************************)
(* Statements the code does not meet.                                       *)
(***************************************************************************)
\* s occurs in t as a run of consecutive characters
is_substring(s, t) ==
    \E k \in 0..(Len(t) - Len(s)) : \A i \in 1..Len(s) : t[k + i] = s[i]

literal_matches(term) ==
    SelectSeq(column(locations, "name"),
              LAMBDA n : is_substring(lower(term), lower(Chars(n))))

\* C3: for a non-empty term the search result is the locations, in directory
\* order, whose lower-cased name contains the lower-cased term as a literal
\* substring.
C3_LiteralSubstring ==
    (Ran /\ search_term # <<>>) => found = literal_matches(search_term)

\* C5: search and type filtering never end in an error, whatever the term.
C5_SearchNeverFails == Ran => raised # "re.error"

\* C6: every create_map call yields a render: with a highlight name it holds
\* the overlay, one circle (that location's radius, at its coordinates) and
\* one pulsing marker, for that location; without one it holds none of them.
kinds(children, kind) == {k \in 1..Len(children) : children[k].kind = kind}

C6_TwoRenderStates ==
    call.called =>
        /\ m.built
        /\ IF call.highlight_name # None
           THEN /\ Cardinality(kinds(m.children, "Rectangle")) = 1
                /\ Cardinality(kinds(m.children, "PulseMarker")) = 1
                /\ \E k \in 1..Len(m.children) :
                      /\ kinds(m.children, "Circle") = {k}
                      /\ m.children[k] =
                            Element("Circle", row_by_name(call.highlight_name))
           ELSE /\ kinds(m.children, "Rectangle") = {}
                /\ kinds(m.children, "Circle") = {}
                /\ kinds(m.children, "PulseMarker") = {}

\* C1: after a run the distance list built for the selected location has one
\* entry less than the directory has locations, has no entry for the origin,
\* has every other location exactly once, and every distance in it is a
\* number >= 0.
C1_DistanceList ==
    Ran =>
        /\ panel.shown
        /\ panel.name = selected_location
        /\ Len(panel.distances) = Len(locations) - 1
        /\ \A k \in 1..Len(panel.distances) :
              panel.distances[k].location # selected_location
        /\ \A n \in Names \ {selected_location} :
              Cardinality({k \in 1..Len(panel.distances) :
                              panel.distances[k].location = n}) = 1
        /\ \A k \in 1..Len(panel.distances) :
              \E metres \in 0..500 :
                  panel.distances[k].distance = ToString(metres) \o " meters"

\* C7: after a run the distance list is there and is in directory order: of
\* two entries, the one whose location comes first in the directory comes
\* first in the list, whatever the distances are.
C7_DirectoryOrder ==
    Ran =>
        /\ panel.shown
        /\ \A a, b \in 1..Len(panel.distances) :
              (a < b) <=> (index_of(panel.distances[a].location)
                             < index_of(panel.distances[b].location))

\* C8: after every run the location highlighted on the map is the one whose
\* details and distances the panel shows.
C8_HighlightIsPanel ==
    Ran => /\ panel.shown
           /\ panel.name = highlighted_location

\* the term compiles and is found in the name of row i
term_matches(i) ==
    /\ ~str_contains(lower_names, lower(search_term)).raised
    /\ str_contains(lower_names, lower(search_term)).mask[i]

\* C9: the search box comes first: after every run with a non-empty term
\* that matches, the map is centred at zoom 18 on the first match taken over
\* the whole directory and highlights it, whatever type and location are
\* selected; and after every run the session value highlighted_location is
\* the highlight name given to create_map on that run (None when no
\* location was given).
C9_SearchFirst ==
    Ran =>
        /\ \A i \in Rows :
              ( /\ search_term # <<>>
                /\ term_matches(i)
                /\ \A j \in 1..(i - 1) : ~term_matches(j) )
              => /\ call = Call(locations[i].latitude, locations[i].longitude,
                                18, locations[i].name)
                 /\ highlighted_location = locations[i].name
                 /\ m.built
                 /\ m.location = <<locations[i].latitude, locations[i].longitude>>
                 /\ m.zoom_start = 18
                 /\ \E k \in 1..Len(m.children) :
                       m.children[k] = Element("Circle", locations[i])
        /\ call.called
        /\ highlighted_location = call.highlight_name

\* C10: a run produces the plain map (no highlight, default centre, zoom 17)
\* exactly when the term is not empty and matches no location; with an empty
\* term a location is always highlighted, and the final else arm is never
\* taken.
C10_PlainMapIff ==
    Ran =>
        /\ ( /\ m.built
             /\ m.location = <<-3923, 369634>>
             /\ m.zoom_start = 17
             /\ kinds(m.children, "Circle") = {} )
               <=> (search_term # <<>> /\ found = <<>>)
        /\ search_term = <<>> => call.highlight_name # None
        /\ branch # "else"

====
